---- MODULE Spec2Model ----
(***************************************************************************)
(* bin/etherscan.js: the crawler of verified contracts.                    *)
(*                                                                         *)
(* The module models                                                       *)
(*   - fetchText, the per-key throttle around makeReq (lines 52-76);        *)
(*   - main, fetchPages, fetchPage and fetchAddress (lines 139-213), whose *)
(*     fetches go through fetchText.                                       *)
(* Node runs one callback at a time: an action is one callback together    *)
(* with the promise continuations (microtasks) it triggers.  Time is the   *)
(* value of Date.now(), assumed monotone; a timer fires at or after its    *)
(* due time.                                                               *)
(***************************************************************************)
EXTENDS Integers, Sequences, FiniteSets, TLC

VARIABLES
    now,        \* Date.now()
    map,        \* fetchText's map: key -> the throttled function's state
    calls,      \* the fetchText calls issued so far, in issue order
    lastDone,   \* history: per key, when the latest call under it settled
    status,     \* the process: "running", "done", "exit0", "exit1"
    args,       \* getArgs(): address, page, pages, update
    soljsonVersions,    \* main: the index soljsonVersionsLoad returned
    text,       \* soljsonVersionsLoad: text, while the function runs
    store,      \* the contract store: the addresses saved (network foundation)
    pc,         \* the await main's chain of calls is suspended at
    stage,      \* main: which of lines 205-207 is running
    page,       \* fetchPages / fetchPage: page
    cur,        \* fetchPage: addresses, the loop's position, the footer match
    address,    \* fetchAddress: address (lowercased)
    fa,         \* fetchAddress: the two fetches of Promise.all
    contract,   \* fetchAddress: contract
    trace,      \* history: what the run has done, in order
    lastResolved    \* history: which fetch resolved last, per Promise.all

progVars == <<args, soljsonVersions, text, store, pc, stage, page, cur, address, fa,
              contract, trace, lastResolved>>
vars == <<now, map, calls, lastDone, status, args, soljsonVersions, text, store, pc,
          stage, page, cur, address, fa, contract, trace, lastResolved>>

(***************************************************************************)
(* Bounds of the model.                                                    *)
(***************************************************************************)
Epoch == 2000       \* Date.now() when the process starts
Horizon == 2000     \* the clock is followed up to Epoch + Horizon
TickMs == 500       \* granularity of the clock
MaxCalls == 4       \* calls issued by the callers of LimiterSpec

(***************************************************************************)
(* fetchText (lines 52-76).                                                *)
(***************************************************************************)
MinInterval == 1000     \* line 66
concurrency == 1        \* line 72

NoKey == ""             \* fetchText(url) without an id (line 61: !id)
Keys == {"etherscan", "blockchair"}

Max(a, b) == IF a >= b THEN a ELSE b

\* line 64: a key's state when map[id] is created
newLimiter == [created |-> TRUE, last |-> 0, launched |-> 0, queue |-> <<>>]

\* line 59: const map = {}
emptyMap == [k \in Keys |-> [created |-> FALSE, last |-> 0, launched |-> 0, queue |-> <<>>]]

\* line 66: const sleep = 1000 - (Date.now() - last)
sleep(last, t) == MinInterval - (t - last)

\* line 67: setTimeout(resolve, sleep); a delay below 0 is due at once
wakeAt(last, t) == t + Max(sleep(last, t), 0)

\* mutant of lastAfter: the time is recorded when the request failed, too
lastAlways(last, ok, t) == t

\* lines 69-70: last = Date.now() is reached only when makeReq resolved
lastAfter(last, ok, t) == IF ok THEN t ELSE last

\* mutant of keyOf: one throttled function for all keys
sharedKey(id) == "etherscan"

\* lines 63, 74: map[id], the throttled function a call with this id uses
keyOf(id) == id

\* mutant of canLaunch: two calls at a time
canLaunchTwo(launched) == launched < concurrency + 1

\* line 72: makeConcurrent runs the function when fewer than `concurrency`
\* calls of it are running, and queues the call otherwise
canLaunch(launched) == launched < concurrency

\* mutant of dequeue: the call queued last is taken
dequeueLast(queue) ==
    [next |-> queue[Len(queue)], rest |-> SubSeq(queue, 1, Len(queue) - 1)]

\* line 72: when a call ends makeConcurrent runs the call that has waited
\* longest
dequeue(queue) == [next |-> Head(queue), rest |-> Tail(queue)]

\* lines 60-75: fetchText(url, id) at time t; L = [map, calls].
\* The new call is number Len(L.calls) + 1.
fetchText(L, id, t) ==
    IF id = NoKey
    THEN \* line 61: return makeReq(url)
         [map |-> L.map,
          calls |-> Append(L.calls, [id |-> NoKey, st |-> "req", wake |-> 0])]
    ELSE LET c == Len(L.calls) + 1
             k == keyOf(id)
             m == IF L.map[k].created THEN L.map[k] ELSE newLimiter
         IN IF canLaunch(m.launched)
            THEN [map |-> [L.map EXCEPT ![k] = [m EXCEPT !.launched = @ + 1]],
                  calls |-> Append(L.calls,
                      [id |-> id, st |-> "sleep", wake |-> wakeAt(m.last, t)])]
            ELSE [map |-> [L.map EXCEPT ![k] = [m EXCEPT !.queue = Append(@, c)]],
                  calls |-> Append(L.calls, [id |-> id, st |-> "queued", wake |-> 0])]

\* lines 65-72, the end of a call: makeReq of call c settled at time t
\* (ok = it resolved with status 200); the slot is released and the next
\* queued call, if any, starts its sleep.
settle(L, c, ok, t) ==
    LET id == L.calls[c].id
        cs == [L.calls EXCEPT ![c].st = IF ok THEN "ok" ELSE "fail"]
    IN IF id = NoKey
       THEN [map |-> L.map, calls |-> cs]
       ELSE LET k == keyOf(id)
                m == L.map[k]
                last2 == lastAfter(m.last, ok, t)
            IN IF m.queue = <<>>
               THEN [map |-> [L.map EXCEPT ![k] =
                                 [m EXCEPT !.last = last2, !.launched = @ - 1]],
                     calls |-> cs]
               ELSE LET q == dequeue(m.queue)
                    IN [map |-> [L.map EXCEPT ![k] =
                                 [m EXCEPT !.last = last2, !.queue = q.rest]],
                        calls |-> [cs EXCEPT ![q.next].st = "sleep",
                                             ![q.next].wake = wakeAt(last2, t)]]

Lim == [map |-> map, calls |-> calls]

\* history: a call under a key settled at time t
noteDone(id, t) ==
    IF id = NoKey THEN lastDone ELSE [lastDone EXCEPT ![id] = t]

(***************************************************************************)
(* Strings are sequences of one-character strings, so that toLowerCase,    *)
(* slice, trim, includes and the regular expressions are computed.         *)
(***************************************************************************)
Min(a, b) == IF a <= b THEN a ELSE b

Digits == {"0", "1", "2", "3", "4", "5", "6", "7", "8", "9"}
LowerLetters == {"a", "b", "c", "d", "e", "f", "g", "h", "i", "j", "k", "l", "m",
                 "n", "o", "p", "q", "r", "s", "t", "u", "v", "w", "x", "y", "z"}
isAlnum(ch) == ch \in LowerLetters \cup Digits                  \* [a-z0-9]
isHex(ch) == ch \in Digits \cup {"a", "b", "c", "d", "e", "f"}  \* [0-9a-f]
isSpace(ch) == ch \in {" ", "\n", "\r", "\t"}

lowerChar(ch) ==
    CASE ch = "A" -> "a" [] ch = "B" -> "b" [] ch = "C" -> "c"
      [] ch = "D" -> "d" [] ch = "E" -> "e" [] ch = "F" -> "f"
      [] ch = "X" -> "x"
      [] OTHER -> ch

\* String.prototype.toLowerCase
toLowerCase(s) == [i \in DOMAIN s |-> lowerChar(s[i])]

\* String.prototype.slice(from, to) with from >= 0 and to >= 0
slice(s, from, to) == SubSeq(s, Min(from, Len(s)) + 1, Min(to, Len(s)))

\* String.prototype.slice(from, -back)
sliceBack(s, from, back) == SubSeq(s, Min(from, Len(s)) + 1, Len(s) - back)

\* String.prototype.trim
trim(s) ==
    LET ks == {i \in DOMAIN s : ~isSpace(s[i])}
    IN IF ks = {} THEN <<>>
       ELSE SubSeq(s, CHOOSE i \in ks : \A j \in ks : i <= j,
                      CHOOSE i \in ks : \A j \in ks : i >= j)

\* mutant of includes: the word is looked for at the start only
startsWith(s, w) == SubSeq(s, 1, Min(Len(w), Len(s))) = w

\* String.prototype.includes
includes(s, w) ==
    \E i \in 0..(Len(s) - Len(w)) : SubSeq(s, i + 1, i + Len(w)) = w

\* String.prototype.split('\n')
RECURSIVE splitLines(_, _)
splitLines(s, line) ==
    IF s = <<>> THEN <<line>>
    ELSE IF Head(s) = "\n" THEN <<line>> \o splitLines(Tail(s), <<>>)
    ELSE splitLines(Tail(s), Append(line, Head(s)))

\* the longest run of [a-z0-9] that ends at position n of s
alnumRunEndingAt(s, n) ==
    LET k == CHOOSE k \in 0..n :
                 /\ \A i \in (n - k + 1)..n : isAlnum(s[i])
                 /\ (k = n \/ ~isAlnum(s[n - k]))
    IN SubSeq(s, n - k + 1, n)

\* the longest run of [0-9a-f] that starts s
hexPrefix(s) ==
    LET k == CHOOSE k \in 0..Len(s) :
                 /\ \A i \in 1..k : isHex(s[i])
                 /\ (k = Len(s) \/ ~isHex(s[k + 1]))
    IN SubSeq(s, 1, k)

commitWord == <<"c", "o", "m", "m", "i", "t">>
dotJs == <<".", "j", "s">>

(***************************************************************************)
(* soljsonVersionsLoad (lines 78-92).                                      *)
(***************************************************************************)
FingerprintLen == 6     \* lines 86, 153: slice(0, 6)
VersionFrom == 9        \* line 89: slice(9, -3)
VersionBack == 3        \* line 89: slice(9, -3)

\* a JavaScript object read at a key: undefined and '' are both <<>>
Get(obj, k) == IF k \in DOMAIN obj THEN obj[k] ELSE <<>>
Put(obj, k, v) == [x \in DOMAIN obj \cup {k} |-> IF x = k THEN v ELSE obj[x]]

\* line 83: line.match(/([a-z0-9]+)\.js$/); <<>> is no match, else parsed[1]
matchJs(line) ==
    LET n == Len(line) - Len(dotJs)
    IN IF n >= 1 /\ SubSeq(line, n + 1, Len(line)) = dotJs
       THEN alnumRunEndingAt(line, n)
       ELSE <<>>

\* lines 82-90: the loop over the lines
RECURSIVE loadLines(_, _)
loadLines(lines, index) ==
    IF lines = <<>> THEN index
    ELSE LET line == Head(lines)
             parsed == matchJs(line)
             commit == slice(parsed, 0, FingerprintLen)
         IN IF parsed = <<>>
            THEN loadLines(Tail(lines), index)
            ELSE IF Get(index, commit) # <<>>
                    /\ includes(Get(index, commit), commitWord)
            THEN loadLines(Tail(lines), index)
            ELSE loadLines(Tail(lines),
                     Put(index, commit,
                         sliceBack(trim(line), VersionFrom, VersionBack)))

\* lines 78-92
soljsonVersionsLoad(body) == loadLines(splitLines(body, <<>>), <<>>)

(***************************************************************************)
(* The data the run meets: addresses, documents, tables.                   *)
(***************************************************************************)
MaxRows == 2        \* rows of a listing page
MaxTotal == 2       \* the page count a footer gives

addrA == <<"0", "x", "a", "a">>
addrAa == <<"0", "x", "A", "a">>    \* the same address, mixed case
addrB == <<"0", "x", "b", "b">>
RawAddresses == {addrA, addrAa, addrB}
Addresses == {toLowerCase(a) : a \in RawAddresses}

Latest == -1        \* line 31: the upper bound 'latest'

\* lines 12-50: getArgs(); '' is no --address, 0 no --page, <<>> no --pages
ArgsSet ==
    {[address |-> addrAa, page |-> 0, pages |-> <<>>, update |-> u] : u \in BOOLEAN}
    \cup {[address |-> <<>>, page |-> 0, pages |-> <<1, Latest>>, update |-> u] :
            u \in BOOLEAN}
    \cup {[address |-> <<>>, page |-> 1, pages |-> <<>>, update |-> FALSE],
          [address |-> <<>>, page |-> 0, pages |-> <<1, 2>>, update |-> FALSE],
          [address |-> addrB, page |-> 1, pages |-> <<2, 2>>, update |-> FALSE]}

\* the manifest (solc-bin's list.txt): two builds with one fingerprint, a
\* build with another fingerprint, a line that is no build
lineCommit == <<"s", "o", "l", "j", "s", "o", "n", "-", "v", "1", "+",
                "c", "o", "m", "m", "i", "t", ".",
                "a", "b", "c", "1", "2", "3", "4", "5", ".", "j", "s">>
lineNightly == <<"s", "o", "l", "j", "s", "o", "n", "-", "v", "1", "-",
                 "n", ".", "a", "b", "c", "1", "2", "3", "9", "9", ".", "j", "s">>
lineOther == <<"l", "i", "s", "t", ".", "t", "x", "t">>
lineAlias == <<"s", "o", "l", "j", "s", "o", "n", "-", "v", "0", "-",
               "n", ".", "f", "e", "d", "9", "8", ".", "j", "s">>
Manifests ==
    {lineCommit \o <<"\n">> \o lineNightly \o <<"\n">> \o lineAlias \o <<"\n">>,
     lineAlias \o <<"\n">> \o lineNightly \o <<"\n">> \o lineOther
         \o <<"\n">> \o lineCommit}

\* lib/compilers-map: a static table, fingerprint -> fingerprint
compilersMap ==
    (<<"f", "e", "d", "9", "8", "7">> :> <<"a", "b", "c", "1", "2", "3">>)
        @@ (<<"a", "b", "c", "1", "2", "3">> :> <<"f", "e", "d", "9", "8">>)

\* lib/etherscan-constructor-arguments: a static table, address -> hex
etherscanConstructorArguments == (addrB :> <<"b", "b", "0", "2">>)

\* the compiler cell of source A's document
compilerDirect == <<"v", "1", "+", "c", ".", "a", "b", "c", "1", "2", "3", "4", "5">>
compilerAlias == <<"v", "0", "+", "c", ".", "f", "e", "d", "9", "8", "7", "6", "5">>
compilerUnknown == <<"v", "2", "+", "c", ".", "0", "0", "0", "0", "0", "0", "0", "0">>

\* source A's document of an address: the cells fetchAddressEtherscan reads
\* (name, compiler, and the html of the fourth <pre>; <<>> is none)
EtherscanDocs ==
    {[name |-> "Token", compiler |-> compilerDirect, cargsHTML |-> <<>>],
     [name |-> "Token", compiler |-> compilerAlias,
      cargsHTML |-> <<"a", "a", "0", "1", "<", "b", "r", ">">>],
     [name |-> "Token", compiler |-> compilerUnknown, cargsHTML |-> <<>>],
     [name |-> "Token", compiler |-> <<>>, cargsHTML |-> <<>>],
     [name |-> "Token", compiler |-> compilerDirect,
      cargsHTML |-> <<"a", "b", "c", "<">>],
     [name |-> "Token", compiler |-> compilerDirect,
      cargsHTML |-> <<"-", "<">>]}

\* source B's answer: the rows of data
BlockchairResults ==
    {[data |-> d] : d \in {<<>>, <<[transaction_hash |-> "tx1"]>>,
                           <<[transaction_hash |-> "tx1"], [transaction_hash |-> "tx2"]>>}}

\* lib/blockchain getTxInfo's answer
TxInfos == {[address |-> a, bin |-> "0x60"] : a \in RawAddresses}

\* a listing page: the rows' link texts and the count of 'Page X of Y'
\* (<<>> when the text has no such footer)
RECURSIVE SeqsUpTo(_, _)
SeqsUpTo(S, n) ==
    IF n = 0 THEN {<<>>}
    ELSE LET shorter == SeqsUpTo(S, n - 1)
         IN shorter \cup {Append(q, x) : q \in shorter, x \in S}

digit(n) ==
    CASE n = 0 -> "0" [] n = 1 -> "1" [] n = 2 -> "2" [] n = 3 -> "3"
      [] n = 4 -> "4" [] n = 5 -> "5" [] n = 6 -> "6" [] n = 7 -> "7"
      [] n = 8 -> "8" [] OTHER -> "9"

Footers == {<<>>} \cup {<<digit(n)>> : n \in 0..MaxTotal}

Pages ==
    {[rows |-> r, footer |-> f] : r \in SeqsUpTo({addrAa, addrB}, MaxRows), f \in Footers}

\* the number a string of digits is coerced to (line 196: page >= total)
digitValue(ch) ==
    CASE ch = "0" -> 0 [] ch = "1" -> 1 [] ch = "2" -> 2 [] ch = "3" -> 3
      [] ch = "4" -> 4 [] ch = "5" -> 5 [] ch = "6" -> 6 [] ch = "7" -> 7
      [] ch = "8" -> 8 [] OTHER -> 9

RECURSIVE toNumber(_)
toNumber(s) ==
    IF s = <<>> THEN 0
    ELSE 10 * toNumber(SubSeq(s, 1, Len(s) - 1)) + digitValue(s[Len(s)])

(***************************************************************************)
(* The store and the ledger, by their interfaces.                          *)
(***************************************************************************)
\* contractLoader.existsByAddressNetwork(address, 'foundation')
existsByAddressNetwork(st, a) == a \in st

\* contractLoader.save(contract): [added, store]
save(st, c) ==
    [added |-> c.info.address \notin st, store |-> st \cup {c.info.address}]

(***************************************************************************)
(* The run: main, fetchPages, fetchPage, fetchAddress.                     *)
(* An operator below takes the run's state s (the variables an action may  *)
(* change) and gives the state at the next await.                          *)
(***************************************************************************)
S == [map |-> map, calls |-> calls, lastDone |-> lastDone, status |-> status,
      pc |-> pc, stage |-> stage, page |-> page, cur |-> cur,
      address |-> address, fa |-> fa, contract |-> contract, trace |-> trace,
      lastResolved |-> lastResolved]

Set(s) ==
    /\ map' = s.map
    /\ calls' = s.calls
    /\ lastDone' = s.lastDone
    /\ status' = s.status
    /\ pc' = s.pc
    /\ stage' = s.stage
    /\ page' = s.page
    /\ cur' = s.cur
    /\ address' = s.address
    /\ fa' = s.fa
    /\ contract' = s.contract
    /\ trace' = s.trace
    /\ lastResolved' = s.lastResolved

Ev(op, a, val) == [op |-> op, address |-> a, val |-> val]
log(s, e) == [s EXCEPT !.trace = Append(@, e)]

noCur == [call |-> 0, addresses |-> <<>>, i |-> 0, match |-> <<>>]
noFa == [a |-> "none", b |-> "none", callA |-> 0, callB |-> 0,
         etherscan |-> [name |-> "", compiler |-> <<>>, cargsHTML |-> <<>>,
                                cargs |-> <<>>],
         blockchair |-> [txid |-> "", bin |-> "", rows |-> -1],
         txInfo |-> [address |-> <<>>, bin |-> ""]]
noContract == <<>>

\* line 181: the id fetchPage passes to fetchText
pageKey == "etherscan"

\* mutant of addressKey: the contract's document is fetched under another key
addressKeyOther == "blockchair"

\* line 100: the id fetchAddressEtherscan passes to fetchText
addressKey == "etherscan"

\* line 128: the id fetchAddressBlockchair passes to fetchText
blockchairKey == "blockchair"

\* s after fetchText(url, id) at time t
issue(s, id, t) ==
    LET R == fetchText([map |-> s.map, calls |-> s.calls], id, t)
    IN [s EXCEPT !.map = R.map, !.calls = R.calls]

\* s after the request of call c settled at time t
settled(s, c, ok, t) ==
    LET R == settle([map |-> s.map, calls |-> s.calls], c, ok, t)
        id == s.calls[c].id
    IN [s EXCEPT !.map = R.map, !.calls = R.calls,
                 !.lastDone = IF id = NoKey THEN @ ELSE [@ EXCEPT ![id] = t]]

\* mutant of fail: the error is reported and the process is not ended
failLogged(s) == log(s, Ev("error", <<>>, 1))

\* lines 210-213: a rejection reaches main().catch
fail(s) == [log(s, Ev("error", <<>>, 1)) EXCEPT !.status = "exit1"]

\* mutant of onExistsUpdate: the message is logged and the call returns
onExistsUpdateReturns(s) == s

\* lines 94-97
onExistsUpdate(s) == [s EXCEPT !.status = "exit0"]

\* lines 139-141: fetchAddress up to its first await
callFetchAddress(s, a) ==
    [s EXCEPT !.pc = "exists", !.address = toLowerCase(a),
              !.fa = noFa, !.contract = noContract]

\* lines 180-181: fetchPage up to its first await
callFetchPage(s, p, t) ==
    [issue(s, pageKey, t) EXCEPT
        !.pc = "page", !.page = p, !.cur = [noCur EXCEPT !.call = Len(s.calls) + 1]]

\* lines 205-208: main from the statement for `from` on
mainFrom(s, from, t) ==
    IF from = "address" /\ args.address # <<>>
    THEN callFetchAddress([s EXCEPT !.stage = "address"], args.address)
    ELSE IF from \in {"address", "page"} /\ args.page # 0
    THEN callFetchPage([s EXCEPT !.stage = "page"], args.page, t)
    ELSE IF from \in {"address", "page", "pages"} /\ args.pages # <<>>
    THEN callFetchPage([s EXCEPT !.stage = "pages"], args.pages[1], t)
    ELSE [s EXCEPT !.status = "done", !.pc = "end"]

\* mutant of lastPage: the footer's count decides for a literal bound too
lastPageByFooter(p, up, total) == p >= toNumber(total)

\* mutant of lastPage: the comparison is strict
lastPageStrict(p, up, total) == p > (IF up = Latest THEN toNumber(total) ELSE up)

\* line 196: the loop of fetchPages ends after this page
lastPage(p, up, total) == p >= (IF up = Latest THEN toNumber(total) ELSE up)

\* fetchPage returned total: line 206 goes on to line 207, line 195 to 196
returnFromFetchPage(s, total, t) ==
    IF s.stage = "page"
    THEN mainFrom(s, "pages", t)
    ELSE IF lastPage(s.page, args.pages[2], total)
    THEN mainFrom(s, "end", t)
    ELSE callFetchPage(s, s.page + 1, t)

\* mutant of addressAt: the list is walked from its end
addressFromEnd(addresses, i) == addresses[Len(addresses) - i + 1]

\* line 186: the address the loop of fetchPage takes at position i
addressAt(addresses, i) == addresses[i]

\* mutant of forAddresses: the footer is looked for before the addresses
\* are ingested
footerFirst(s, t) ==
    IF s.cur.i = 1 /\ s.cur.match = <<>>
    THEN fail(log(s, Ev("footer", <<>>, [page |-> s.page, match |-> s.cur.match])))
    ELSE IF s.cur.i <= Len(s.cur.addresses)
    THEN callFetchAddress(s, addressAt(s.cur.addresses, s.cur.i))
    ELSE returnFromFetchPage(
             log(s, Ev("footer", <<>>, [page |-> s.page, match |-> s.cur.match])),
             s.cur.match, t)

\* lines 186-190: the loop of fetchPage at position s.cur.i, then the footer
forAddresses(s, t) ==
    IF s.cur.i <= Len(s.cur.addresses)
    THEN callFetchAddress(s, addressAt(s.cur.addresses, s.cur.i))
    ELSE LET s1 == log(s, Ev("footer", <<>>, [page |-> s.page, match |-> s.cur.match]))
         IN IF s.cur.match = <<>>
            THEN fail(s1)                                   \* line 189
            ELSE returnFromFetchPage(s1, s.cur.match, t)    \* line 190

\* fetchAddress returned: line 205 goes on to line 206, line 186 to the
\* next address
returnFromFetchAddress(s, t) ==
    LET s1 == [log(s, Ev("end", s.address, 1)) EXCEPT !.fa = noFa, !.contract = noContract]
    IN IF s1.stage = "address"
       THEN mainFrom(s1, "page", t)
       ELSE forAddresses([s1 EXCEPT !.cur.i = @ + 1], t)

\* onExistsUpdate() does not return; `rest` is what follows the call
exitOr(s, rest) == IF s.status = "running" THEN rest ELSE s

\* lines 147-150: fetchAddressEtherscan and fetchAddressBlockchair are both
\* called (each up to its fetchText), then awaited together
callBoth(s, t) ==
    LET s1 == issue(s, addressKey, t)
        s2 == issue(s1, blockchairKey, t)
    IN [log(s2, Ev("fetch", s.address, 1)) EXCEPT
           !.pc = "fetching",
           !.fa = [noFa EXCEPT !.a = "wait", !.b = "wait",
                               !.callA = Len(s1.calls),
                               !.callB = Len(s2.calls)]]

\* mutant of afterExists: without update mode a stored address is fetched
\* again
afterExistsFetches(s, exists, t) ==
    IF exists /\ args.update THEN onExistsUpdate(s) ELSE callBoth(s, t)

\* mutant of afterExists: the answer of the store is not looked at
afterExistsUnchecked(s, exists, t) == callBoth(s, t)

\* lines 142-150: fetchAddress after existsByAddressNetwork answered
afterExists(s, exists, t) ==
    IF exists
    THEN IF args.update
         THEN LET s1 == onExistsUpdate(s)                   \* line 143
              IN exitOr(s1, returnFromFetchAddress(s1, t))
         ELSE returnFromFetchAddress(s, t)                  \* line 144
    ELSE callBoth(s, t)

\* mutant of fallback: the table is not looked at
noFallback(cargs, a) == cargs

\* line 122: cargs || etherscanConstructorArguments[address] || ''
fallback(cargs, a) ==
    IF cargs # <<>> THEN cargs ELSE Get(etherscanConstructorArguments, a)

\* lines 115-122: cargs of source A's document; [ok, cargs]
constructorArguments(cargsHTML, a) ==
    LET hex == hexPrefix(cargsHTML)
        match == hex # <<>> /\ Len(cargsHTML) > Len(hex) /\ cargsHTML[Len(hex) + 1] = "<"
    IN IF cargsHTML # <<>> /\ ~(match /\ Len(hex) % 2 = 0)
       THEN [ok |-> FALSE, cargs |-> <<>>]                  \* line 119
       ELSE LET cargs == IF cargsHTML # <<>> THEN hex ELSE <<>>
            IN [ok |-> TRUE, cargs |-> fallback(cargs, a)]

\* mutant of oneRow: more rows than one are accepted
atLeastOneRow(result) == Len(result.data) >= 1

\* line 130: exactly one row
oneRow(result) == Len(result.data) = 1

\* mutant of sameAddress: the comparison ignores case
sameAddressAnyCase(txInfo, a) == toLowerCase(txInfo.address) = a

\* line 134: assert.equal(txInfo.address, address)
sameAddress(txInfo, a) == txInfo.address = a

\* mutant of bothResolved: source A's promise alone is awaited
firstResolved(f) == f.a = "ok"

\* line 147: Promise.all resolves when both promises have resolved
bothResolved(f) == f.a = "ok" /\ f.b = "ok"

\* line 153: etherscan.compiler.match(/([a-z0-9]+)$/)[1].slice(0, 6);
\* <<>> when there is no match (a TypeError)
compilerMark(compiler) ==
    slice(alnumRunEndingAt(compiler, Len(compiler)), 0, FingerprintLen)

\* line 154
soljsonVersion(index, mark) ==
    IF Get(index, mark) # <<>> THEN Get(index, mark)
    ELSE Get(index, Get(compilersMap, mark))

\* lines 157-173
makeContract(a, etherscan, blockchair, version) ==
    [bin |-> blockchair.bin,
     info |-> [name |-> etherscan.name, compiler |-> version,
               network |-> "foundation", txid |-> blockchair.txid,
               address |-> a, constructor |-> etherscan.cargs]]

\* lines 151-174: after Promise.all, up to the await of save
afterAll(s, index) ==
    LET mark == compilerMark(s.fa.etherscan.compiler)
        version == soljsonVersion(index, mark)
    IN IF mark = <<>> \/ version = <<>>
       THEN fail(s)                                         \* lines 153, 155
       ELSE [s EXCEPT !.pc = "save",
                      !.contract = makeContract(s.address, s.fa.etherscan,
                                                s.fa.blockchair, version)]

\* line 147: one of the two promises (who) resolved
resolved(s, who, index) ==
    IF bothResolved(s.fa)
    THEN afterAll([s EXCEPT !.lastResolved = @ \cup {who}], index)
    ELSE s

\* mutant of lostRace: update mode is not looked at
lostRaceAnyMode(added, update) == ~added

\* line 175: the record was there already and the run is an update
lostRace(added, update) == ~added /\ update

(***************************************************************************)
(* The clock and the timers.                                               *)
(***************************************************************************)
Tick ==
    /\ status = "running"
    /\ now + TickMs <= Epoch + Horizon
    /\ now' = now + TickMs
    /\ UNCHANGED <<map, calls, lastDone, status, progVars>>

\* line 67: the timer of call c fires; line 69: makeReq(url) starts
TimerFire(c) ==
    /\ status = "running"
    /\ calls[c].st = "sleep"
    /\ now >= calls[c].wake
    /\ calls' = [calls EXCEPT ![c].st = "req", ![c].wake = 0]
    /\ UNCHANGED <<now, map, lastDone, status, progVars>>

(***************************************************************************)
(* LimiterSpec: fetchText under arbitrary callers.                         *)
(***************************************************************************)
Call(id) ==
    /\ Len(calls) < MaxCalls
    /\ LET R == fetchText(Lim, id, now)
       IN /\ map' = R.map
          /\ calls' = R.calls
    /\ UNCHANGED <<now, lastDone, status, progVars>>

ReqDone(c, ok) ==
    /\ calls[c].st = "req"
    /\ LET R == settle(Lim, c, ok, now)
       IN /\ map' = R.map
          /\ calls' = R.calls
    /\ lastDone' = noteDone(calls[c].id, now)
    /\ UNCHANGED <<now, status, progVars>>

LimiterInit ==
    /\ now = Epoch
    /\ map = emptyMap
    /\ calls = <<>>
    /\ lastDone = [k \in Keys |-> 0]
    /\ status = "running"
    /\ args = [address |-> <<>>, page |-> 0, pages |-> <<>>, update |-> FALSE]
    /\ soljsonVersions = <<>>
    /\ text = <<>>
    /\ store = {}
    /\ pc = "callers"
    /\ stage = "load"
    /\ page = 0
    /\ cur = [call |-> 0, addresses |-> <<>>, i |-> 0, match |-> <<>>]
    /\ address = <<>>
    /\ fa = [a |-> "none", b |-> "none", callA |-> 0, callB |-> 0,
             etherscan |-> [name |-> "", compiler |-> <<>>, cargsHTML |-> <<>>,
                                cargs |-> <<>>],
             blockchair |-> [txid |-> "", bin |-> "", rows |-> -1],
             txInfo |-> [address |-> <<>>, bin |-> ""]]
    /\ contract = <<>>
    /\ trace = <<>>
    /\ lastResolved = {}

LimiterNext ==
    \/ Tick
    \/ \E id \in Keys \cup {NoKey} : Call(id)
    \/ \E c \in DOMAIN calls : TimerFire(c)
    \/ \E c \in DOMAIN calls, ok \in BOOLEAN : ReqDone(c, ok)

LimiterSpec == LimiterInit /\ [][LimiterNext]_vars

(***************************************************************************)
(* LoadSpec: soljsonVersionsLoad on the manifests of up to MaxLines lines. *)
(***************************************************************************)
MaxLines == 3       \* lines of a manifest

\* builds with the fingerprint of lineCommit and lineNightly, a build with
\* another one, and lines that end in white space or begin with it
lineCommitLater == <<"s", "o", "l", "j", "s", "o", "n", "-", "v", "2", "+",
                     "c", "o", "m", "m", "i", "t", ".",
                     "a", "b", "c", "1", "2", "3", "7", "7", ".", "j", "s">>
lineNightlyLater == <<"s", "o", "l", "j", "s", "o", "n", "-", "v", "3", "-",
                      "n", ".", "a", "b", "c", "1", "2", "3", "0", "0", ".", "j", "s">>
ManifestLines ==
    {lineCommit, lineNightly, lineCommitLater, lineNightlyLater, lineAlias,
     lineOther, lineCommit \o <<" ">>, <<" ">> \o lineNightlyLater}

RECURSIVE joinLines(_)
joinLines(lines) ==
    IF lines = <<>> THEN <<>>
    ELSE IF Len(lines) = 1 THEN lines[1]
    ELSE lines[1] \o <<"\n">> \o joinLines(Tail(lines))

ManifestTexts == {joinLines(ls) : ls \in SeqsUpTo(ManifestLines, MaxLines)}

\* line 79: the manifest has arrived
LoadInit ==
    /\ now = Epoch
    /\ map = emptyMap
    /\ calls = <<>>
    /\ lastDone = [k \in Keys |-> 0]
    /\ status = "running"
    /\ args = [address |-> <<>>, page |-> 0, pages |-> <<>>, update |-> FALSE]
    /\ soljsonVersions = <<>>
    /\ text \in ManifestTexts
    /\ store = {}
    /\ pc = "manifest"
    /\ stage = "load"
    /\ page = 0
    /\ cur = noCur
    /\ address = <<>>
    /\ fa = noFa
    /\ contract = noContract
    /\ trace = <<>>
    /\ lastResolved = {}

\* lines 81-91: the index is built and returned
Load ==
    /\ pc = "manifest"
    /\ soljsonVersions' = soljsonVersionsLoad(text)
    /\ pc' = "loaded"
    /\ UNCHANGED <<now, map, calls, lastDone, status, args, text, store, stage,
                   page, cur, address, fa, contract, trace, lastResolved>>

LoadNext == Load

LoadSpec == LoadInit /\ [][LoadNext]_vars


(***************************************************************************)
failed == [ok |-> FALSE]
answers(bodies) == {failed} \cup {[ok |-> TRUE, body |-> b] : b \in bodies}

\* lines 200-202: main() up to the await of makeReq in soljsonVersionsLoad
Init ==
    /\ now = Epoch
    /\ args \in ArgsSet
    /\ soljsonVersions = <<>>
    /\ text = <<>>
    /\ store = {}
    /\ map = emptyMap
    /\ calls = fetchText([map |-> emptyMap, calls |-> <<>>], NoKey, Epoch).calls
    /\ lastDone = [k \in Keys |-> 0]
    /\ status = "running"
    /\ pc = "manifest"
    /\ stage = "load"
    /\ page = 0
    /\ cur = noCur
    /\ address = <<>>
    /\ fa = noFa
    /\ contract = noContract
    /\ trace = <<>>
    /\ lastResolved = {}

\* lines 79-91, 202-205: the manifest arrived (or makeReq rejected)
ManifestLoaded(r) ==
    /\ status = "running"
    /\ pc = "manifest"
    /\ calls[1].st = "req"
    /\ LET s1 == settled(S, 1, r.ok, now)
       IN IF r.ok
          THEN /\ soljsonVersions' = soljsonVersionsLoad(r.body)
               /\ Set(mainFrom(s1, "address", now))
          ELSE /\ soljsonVersions' = soljsonVersions
               /\ Set(fail(s1))
    /\ UNCHANGED <<now, args, store, text>>

\* lines 181-190: the listing page arrived
PageLoaded(r) ==
    /\ status = "running"
    /\ pc = "page"
    /\ calls[cur.call].st = "req"
    /\ LET s1 == settled(S, cur.call, r.ok, now)
       IN IF r.ok
          THEN LET addresses == [i \in DOMAIN r.body.rows |-> toLowerCase(r.body.rows[i])]
                   s2 == [s1 EXCEPT !.cur = [call |-> cur.call, addresses |-> addresses,
                                             i |-> 1, match |-> r.body.footer]]
                   s3 == log(s2, Ev("page", <<>>, [page |-> page, addresses |-> addresses]))
               IN Set(forAddresses(s3, now))
          ELSE Set(fail(s1))
    /\ UNCHANGED <<now, args, store, soljsonVersions, text>>

\* lines 141-150: existsByAddressNetwork answered
ExistsChecked ==
    /\ status = "running"
    /\ pc = "exists"
    /\ LET exists == existsByAddressNetwork(store, address)
       IN Set(afterExists(log(S, Ev("exists", address, exists)), exists, now))
    /\ UNCHANGED <<now, args, store, soljsonVersions, text>>

\* lines 100-124: source A's document arrived
EtherscanLoaded(r) ==
    /\ status = "running"
    /\ pc = "fetching"
    /\ fa.a = "wait"
    /\ calls[fa.callA].st = "req"
    /\ LET s1 == settled(S, fa.callA, r.ok, now)
       IN IF r.ok
          THEN LET ca == constructorArguments(r.body.cargsHTML, address)
                   s2 == [s1 EXCEPT !.fa.a = "ok",
                                    !.fa.etherscan = [name |-> r.body.name,
                                                      compiler |-> r.body.compiler,
                                                      cargsHTML |-> r.body.cargsHTML,
                                                      cargs |-> ca.cargs]]
               IN IF ca.ok
                  THEN Set(resolved(s2, "etherscan", soljsonVersions))
                  ELSE Set(fail(s1))
          ELSE Set(fail(s1))
    /\ UNCHANGED <<now, args, store, soljsonVersions, text>>

\* lines 128-133: source B's answer arrived
BlockchairLoaded(r) ==
    /\ status = "running"
    /\ pc = "fetching"
    /\ fa.b = "wait"
    /\ calls[fa.callB].st = "req"
    /\ LET s1 == settled(S, fa.callB, r.ok, now)
       IN IF r.ok
          THEN LET s2 == [s1 EXCEPT !.fa.blockchair.rows = Len(r.body.data)]
               IN IF oneRow(r.body)
                  THEN Set([s2 EXCEPT !.fa.b = "tx",
                                      !.fa.blockchair.txid =
                                          r.body.data[1].transaction_hash])
                  ELSE Set(fail(s2))                        \* line 130
          ELSE Set(fail(s1))
    /\ UNCHANGED <<now, args, store, soljsonVersions, text>>

\* lines 133-136: getTxInfo answered
TxInfoLoaded(r) ==
    /\ status = "running"
    /\ pc = "fetching"
    /\ fa.b = "tx"
    /\ IF r.ok
       THEN LET s1 == [S EXCEPT !.fa.txInfo = r.body]
            IN IF sameAddress(r.body, address)
               THEN Set(resolved([s1 EXCEPT !.fa.b = "ok",
                                            !.fa.blockchair.bin = r.body.bin],
                                 "blockchair", soljsonVersions))
               ELSE Set(fail(s1))
       ELSE Set(fail(S))
    /\ UNCHANGED <<now, args, store, soljsonVersions, text>>

\* lines 174-178: save answered
Saved ==
    /\ status = "running"
    /\ pc = "save"
    /\ LET R == save(store, contract)
           s1 == log(S, Ev("save", address, R.added))
       IN /\ store' = R.store
          /\ IF lostRace(R.added, args.update)
             THEN LET s2 == onExistsUpdate(s1)
                  IN Set(exitOr(s2, returnFromFetchAddress(s2, now)))
             ELSE Set(returnFromFetchAddress(s1, now))
    /\ UNCHANGED <<now, args, soljsonVersions, text>>

\* Another writer of the store saves a record.  The run sees the store
\* only through existsByAddressNetwork and save of its current address, so
\* the other writer's save is taken just before one of those two answers.
ExternalSave ==
    /\ status = "running"
    /\ pc \in {"exists", "save"}
    /\ address \notin store
    /\ store' = store \cup {address}
    /\ UNCHANGED <<now, map, calls, lastDone, status, args, soljsonVersions, text,
                   pc, stage, page, cur, address, fa, contract, trace, lastResolved>>

Next ==
    \/ Tick
    \/ \E c \in DOMAIN calls : TimerFire(c)
    \/ \E r \in answers(Manifests) : ManifestLoaded(r)
    \/ \E r \in answers(Pages) : PageLoaded(r)
    \/ ExistsChecked
    \/ \E r \in answers(EtherscanDocs) : EtherscanLoaded(r)
    \/ \E r \in answers(BlockchairResults) : BlockchairLoaded(r)
    \/ \E r \in answers(TxInfos) : TxInfoLoaded(r)
    \/ Saved
    \/ ExternalSave

Spec == Init /\ [][Next]_vars

(***************************************************************************)
(* What the history says.                                                  *)
(***************************************************************************)
\* the calls under key k that are inside the throttled section
Inside(k) == {c \in DOMAIN calls : calls[c].id = k /\ calls[c].st \in {"sleep", "req"}}

\* the positions of the events `op` in the history
At(op) == {i \in DOMAIN trace : trace[i].op = op}

\* the position of the last event `op` (0: none)
LastAt(op) == IF At(op) = {} THEN 0 ELSE CHOOSE i \in At(op) : \A j \in At(op) : j <= i

\* the subsequence of q at the positions in I, in order
RECURSIVE Pick(_, _)
Pick(q, I) ==
    IF I = {} THEN <<>>
    ELSE LET m == CHOOSE i \in I : \A j \in I : j <= i
         IN Append(Pick(q, I \ {m}), q[m])

\* the pages loaded, in order, and the footer counts read, in order
Visited == [k \in DOMAIN Pick(trace, At("page")) |-> Pick(trace, At("page"))[k].val.page]
FooterCounts ==
    [k \in DOMAIN Pick(trace, At("footer")) |-> toNumber(Pick(trace, At("footer"))[k].val.match)]

\* the addresses whose ingestion began, and those whose ingestion
\* returned, since the current page was loaded
Began == [k \in DOMAIN Pick(trace, {i \in At("exists") : i > LastAt("page")}) |->
             Pick(trace, {i \in At("exists") : i > LastAt("page")})[k].address]
Returned == [k \in DOMAIN Pick(trace, {i \in At("end") : i > LastAt("page")}) |->
                Pick(trace, {i \in At("end") : i > LastAt("page")})[k].address]

IsPrefix(p, q) == Len(p) <= Len(q) /\ SubSeq(q, 1, Len(p)) = p

\* no fetchText call is waiting, sleeping or requesting
NothingInFlight == \A c \in DOMAIN calls : calls[c].st \in {"ok", "fail"}

(***************************************************************************)
(* C1.                                                                     *)
(***************************************************************************)
\* C1: in update mode, an existsByAddressNetwork that answered true is the
\* last thing the run did: no exists check, fetch or save follows it, no
\* request is in flight, and the process has exited with code 0
UpdateEarlyStop ==
    \A i \in DOMAIN trace :
        (args.update /\ trace[i].op = "exists" /\ trace[i].val = TRUE)
            => /\ i = Len(trace)
               /\ status = "exit0"
               /\ pc = "exists"
               /\ NothingInFlight

\* the stored address is met on a page with a later address still to come
UpdateEarlyStopWitness ==
    /\ args.update
    /\ status = "exit0"
    /\ pc = "exists"
    /\ stage = "pages"
    /\ cur.i < Len(cur.addresses)
    /\ At("save") # {}

(***************************************************************************)
(* C2.                                                                     *)
(***************************************************************************)
\* C2: without update mode, save is called at most once per address; an
\* ingestion that returned either found the address stored (AlreadyExists)
\* or fetched and saved it exactly once; and once save was called for an
\* address every later exists check of it answers true
IdempotentIngestion ==
    ~args.update =>
        /\ \A a \in Addresses :
               Cardinality({i \in At("save") : trace[i].address = a}) <= 1
        /\ \A k \in At("end") :
               \/ /\ k >= 2
                  /\ trace[k - 1].op = "exists"
                  /\ trace[k - 1].val = TRUE
                  /\ trace[k - 1].address = trace[k].address
               \/ /\ k >= 4
                  /\ trace[k - 1].op = "save" /\ trace[k - 1].address = trace[k].address
                  /\ trace[k - 2].op = "fetch" /\ trace[k - 2].address = trace[k].address
                  /\ trace[k - 3].op = "exists" /\ trace[k - 3].val = FALSE
                  /\ trace[k - 3].address = trace[k].address
        /\ \A i \in At("save"), j \in At("exists") :
               (i < j /\ trace[i].address = trace[j].address)
                   => /\ trace[j].val = TRUE
                      /\ j < Len(trace) /\ trace[j + 1].op = "end"

\* an address is saved and ingested a second time
IdempotentIngestionWitness ==
    /\ ~args.update
    /\ \E i \in At("save"), j \in At("exists") :
           /\ i < j
           /\ trace[i].val = TRUE
           /\ trace[i].address = trace[j].address

(***************************************************************************)
(* C3.                                                                     *)
(***************************************************************************)
LatestRun == stage = "pages" /\ args.pages = <<1, Latest>>

\* C3 as stated: fetchPages(1, 'latest') that returned has visited exactly
\* the pages 1..T, T the count of the footer of the last page visited
PaginationAsStated ==
    (LatestRun /\ status = "done")
        => Visited = [k \in 1..FooterCounts[Len(FooterCounts)] |-> k]

\* C3 as amended: fetchPages(1, 'latest') visits the pages 1, 2, ... in
\* increasing order, each once; it goes on after a page whose footer count
\* is above the page's number, and returns after the first page P whose
\* footer count T is at most P (so P = T unless T < P)
PaginationTermination ==
    LatestRun =>
        /\ Visited = [k \in 1..Len(Visited) |-> k]
        /\ Len(FooterCounts) <= Len(Visited)
        /\ \A k \in DOMAIN FooterCounts :
               k < Len(Visited) => FooterCounts[k] > k
        /\ status = "done"
               => /\ Len(FooterCounts) = Len(Visited)
                  /\ FooterCounts[Len(Visited)] <= Len(Visited)

\* the run returned after more than one page
PaginationWitness ==
    /\ LatestRun
    /\ status = "done"
    /\ Len(Visited) = 2
    /\ FooterCounts[2] = 2

(***************************************************************************)
(* C4.                                                                     *)
(***************************************************************************)
\* C4: the request of a call under a key starts at least MinInterval after
\* the previous call under that key settled.  (A request that started at
\* time t is in state "req" at time t, so the gap is checked at its start.)
RateSpacing ==
    \A c \in DOMAIN calls :
        (calls[c].id # NoKey /\ calls[c].st = "req")
            => now - lastDone[calls[c].id] >= MinInterval

(***************************************************************************)
(* C5.                                                                     *)
(***************************************************************************)
\* C5: under one key at most one call is inside the throttled section (its
\* sleep and its request); a call the key makes wait is in the key's
\* queue, behind a call that is inside
MutualExclusion ==
    \A k \in Keys :
        /\ Cardinality(Inside(k)) <= 1
        /\ \A c \in DOMAIN calls :
               (calls[c].id = k /\ calls[c].st = "queued")
                   => /\ Cardinality(Inside(k)) = 1
                      /\ \E n \in DOMAIN map[k].queue : map[k].queue[n] = c

\* a call waits while another call of its key is requesting
MutualExclusionWitness ==
    \E c1, c2 \in DOMAIN calls :
        /\ calls[c1].id = "etherscan" /\ calls[c1].st = "req"
        /\ calls[c2].id = "etherscan" /\ calls[c2].st = "queued"
        /\ \E c3 \in DOMAIN calls : calls[c3].id = "etherscan" /\ calls[c3].st = "ok"

(***************************************************************************)
(* C6.                                                                     *)
(***************************************************************************)
LedgerAnswered == fa.txInfo.address # <<>>

\* C6: when the ledger's address differs from the requested one, the run
\* has failed at that point: nothing was assembled and save was not called
\* for the address
MismatchRejected ==
    (LedgerAnswered /\ fa.txInfo.address # address)
        => /\ status = "exit1"
           /\ pc = "fetching"
           /\ contract = noContract
           /\ \A i \in At("save") : trace[i].address # address
           /\ trace[Len(trace)].op = "error"

\* the mismatch arrives after source A's document was accepted
MismatchWitness ==
    /\ LedgerAnswered
    /\ fa.txInfo.address # address
    /\ toLowerCase(fa.txInfo.address) = address
    /\ fa.a = "ok"

(***************************************************************************)
(* C7.                                                                     *)
(***************************************************************************)
\* C7: a save that answered false ends the run with code 0 in update mode,
\* with nothing after it; without update mode fetchAddress returns and the
\* loop takes the next address
LostRace ==
    \A i \in At("save") :
        trace[i].val = FALSE =>
            IF args.update
            THEN /\ i = Len(trace)
                 /\ status = "exit0"
                 /\ pc = "save"
                 /\ NothingInFlight
            ELSE /\ i < Len(trace)
                 /\ trace[i + 1].op = "end"
                 /\ (i + 1 = Len(trace) /\ LastAt("page") > 0 /\ cur.i <= Len(cur.addresses))
                        => /\ status = "running"
                           /\ pc = "exists"
                           /\ address = cur.addresses[cur.i]

\* the race is lost in update mode with an address of the page still to come
LostRaceWitness ==
    /\ args.update
    /\ status = "exit0"
    /\ pc = "save"
    /\ cur.i < Len(cur.addresses)

(***************************************************************************)
(* C8.                                                                     *)
(***************************************************************************)
\* C8: an error is the last thing the run did, and the process has exited
\* with code 1; a process that exited with code 1 did so on an error
FatalErrorsAbort ==
    /\ \A i \in At("error") : i = Len(trace) /\ status = "exit1"
    /\ status = "exit1" => (trace # <<>> /\ trace[Len(trace)].op = "error")

\* an error during the first address of a page, after the run has saved
FatalErrorsWitness ==
    /\ status = "exit1"
    /\ pc = "fetching"
    /\ cur.i < Len(cur.addresses)
    /\ At("save") # {}

(***************************************************************************)
(* C9.                                                                     *)
(***************************************************************************)
\* C9: while Promise.all is awaited both fetches have been called; the
\* contract is assembled and saved only when both have resolved
JoinSemantics ==
    /\ (status = "running" /\ pc = "fetching")
           => /\ fa.callA \in DOMAIN calls /\ calls[fa.callA].id = "etherscan"
              /\ fa.callB \in DOMAIN calls /\ calls[fa.callB].id = "blockchair"
              /\ fa.a \in {"wait", "ok"} /\ fa.b \in {"wait", "tx", "ok"}
              /\ contract = noContract
    /\ ((status = "running" /\ pc = "save") \/ contract # noContract)
           => /\ fa.a = "ok" /\ calls[fa.callA].st = "ok"
              /\ fa.b = "ok" /\ calls[fa.callB].st = "ok"
              /\ fa.txInfo.address = address
    /\ \A i \in At("save") : i >= 2 /\ trace[i - 1].op = "fetch"

\* both completion orders have led to a save in this run
JoinWitness ==
    /\ lastResolved = {"etherscan", "blockchair"}
    /\ pc = "save"

(***************************************************************************)
(* C10.                                                                    *)
(***************************************************************************)
\* C10: on a page the ingestions begin in the order of the list, one at a
\* time: an ingestion begins only when the one before has returned, and the
\* next page is fetched only when all have returned
SequentialInOrder ==
    stage \in {"page", "pages"} /\ LastAt("page") > 0 =>
        LET L == trace[LastAt("page")].val.addresses
        IN /\ IsPrefix(Began, L)
           /\ IsPrefix(Returned, Began)
           /\ Len(Began) - Len(Returned) \in {0, 1}
           /\ \A i \in At("exists") :
                  i > LastAt("page") => trace[i - 1].op \in {"page", "end"}
           /\ (status = "running" /\ pc = "exists")
                  => /\ Len(Began) = Len(Returned)
                     /\ Len(Began) < Len(L)
                     /\ address = L[Len(Began) + 1]
           /\ (status = "running" /\ pc \in {"fetching", "save"})
                  => /\ Len(Began) = Len(Returned) + 1
                     /\ address = Began[Len(Began)]
           /\ (status = "running" /\ pc \in {"exists", "fetching", "save"})
                  => /\ calls[cur.call].st = "ok"
                     /\ \A c \in DOMAIN calls : c > cur.call =>
                            \/ calls[c].st \in {"ok", "fail"}
                            \/ pc = "fetching" /\ c \in {fa.callA, fa.callB}
           /\ (status = "running" /\ pc = "page"
                   /\ page = trace[LastAt("page")].val.page + 1)
                  => Returned = L

\* two different addresses of a page were ingested and the next page is
\* being fetched
SequentialWitness ==
    /\ stage = "pages"
    /\ pc = "page"
    /\ LastAt("page") > 0
    /\ Len(Returned) = 2
    /\ Returned[1] # Returned[2]
    /\ At("save") # {}
    /\ status = "running"

(***************************************************************************)
(* C11.                                                                    *)
(***************************************************************************)
LiteralRun == stage = "pages" /\ args.pages # <<>> /\ args.pages[2] # Latest

\* the pages fetchPages has loaded (the page of --page, loaded before
\* fetchPages is called, is left out)
RangeVisited ==
    SubSeq(Visited, (IF args.page # 0 THEN 1 ELSE 0) + 1, Len(Visited))

\* C11: fetchPages(down, up) with a number up >= down loads the pages
\* down, down + 1, ... in increasing order, each once, never a page above
\* up, whatever the footers say; it goes on while the page is below up and
\* has returned exactly when the pages down..up are loaded and ingested
LiteralPageRange ==
    LiteralRun =>
        LET down == args.pages[1]
            up == args.pages[2]
        IN /\ up >= down
           /\ Len(RangeVisited) <= up - down + 1
           /\ RangeVisited = [k \in 1..Len(RangeVisited) |-> down + k - 1]
           /\ status = "done" => RangeVisited = [k \in 1..(up - down + 1) |-> down + k - 1]
           /\ (status = "running" /\ pc = "page") => page <= up
           /\ (status = "running" /\ pc = "page" /\ RangeVisited # <<>>)
                  => page = RangeVisited[Len(RangeVisited)] + 1

\* pages 1..2 were loaded although the footer of page 1 said 'of 1' and the
\* footer of page 2 a count other than 2
LiteralPageRangeWitness ==
    /\ LiteralRun
    /\ args.pages = <<1, 2>>
    /\ status = "done"
    /\ Visited = <<1, 2>>
    /\ FooterCounts[1] = 1
    /\ FooterCounts[2] # 2

(***************************************************************************)
(* C12.                                                                    *)
(***************************************************************************)
\* C12: what makes a call under a key wait is a call of the same key: a
\* queued call has an earlier call of its own key inside the throttled
\* section and stands in its own key's queue; a sleeping call is due at
\* the latest MinInterval after its own key's last success; and a call
\* without a key is neither queued nor sleeping, its request is in flight
\* from the moment it is issued
KeyIndependence ==
    /\ \A c \in DOMAIN calls :
           calls[c].id = NoKey => calls[c].st \in {"req", "ok", "fail"}
    /\ \A k \in Keys :
           /\ \A n \in DOMAIN map[k].queue : calls[map[k].queue[n]].id = k
           /\ \A c \in DOMAIN calls :
                  /\ (calls[c].id = k /\ calls[c].st = "queued")
                         => \E d \in Inside(k) : d < c
                  /\ (calls[c].id = k /\ calls[c].st = "sleep")
                         => calls[c].wake <= Max(now, map[k].last + MinInterval)

\* a call of each key is inside its throttled section while two calls
\* without a key are in flight
KeyIndependenceWitness ==
    /\ \E c \in Inside("etherscan") : calls[c].st = "req"
    /\ Inside("blockchair") # {}
    /\ Cardinality({c \in DOMAIN calls : calls[c].id = NoKey /\ calls[c].st = "req"}) >= 2

(***************************************************************************)
(* C13.                                                                    *)
(***************************************************************************)
\* a call has left the queue of its key (its sleep has begun)
Started(c) == calls[c].st \in {"sleep", "req", "ok", "fail"}
Completed(c) == calls[c].st \in {"ok", "fail"}

\* C13: of two calls under one key the one issued later starts only when
\* the one issued earlier has completed, so the calls of a key start and
\* complete in the order they were issued; the key's queue holds the
\* waiting calls in that order
PerKeyFifo ==
    /\ \A c1, c2 \in DOMAIN calls :
           (c1 < c2 /\ calls[c1].id # NoKey /\ calls[c1].id = calls[c2].id
                /\ Started(c2))
               => Completed(c1)
    /\ \A k \in Keys : \A n1, n2 \in DOMAIN map[k].queue :
           n1 < n2 => map[k].queue[n1] < map[k].queue[n2]

\* three calls of one key: the first two have completed, one of them by
\* failing, and the third is requesting
PerKeyFifoWitness ==
    \E c1, c2, c3 \in DOMAIN calls :
        /\ c1 < c2 /\ c2 < c3
        /\ calls[c1].id = "etherscan" /\ calls[c1].st = "fail"
        /\ calls[c2].id = "etherscan" /\ calls[c2].st = "ok"
        /\ calls[c3].id = "etherscan" /\ calls[c3].st = "req"

(***************************************************************************)
(* C14.                                                                    *)
(***************************************************************************)
\* the lines of the manifest that name a build, in order
BuildLines == SelectSeq(splitLines(text, <<>>), LAMBDA l : matchJs(l) # <<>>)
Fingerprint(l) == slice(matchJs(l), 0, FingerprintLen)
Version(l) == sliceBack(trim(l), VersionFrom, VersionBack)
BearsCommit(l) ==
    \E i \in 1..Len(Version(l)) :
        /\ i + 5 <= Len(Version(l))
        /\ SubSeq(Version(l), i, i + 5) = <<"c", "o", "m", "m", "i", "t">>

\* the positions in BuildLines of the lines with fingerprint f
LinesOf(f) == {i \in DOMAIN BuildLines : Fingerprint(BuildLines[i]) = f}

\* C14: the index has an entry for every fingerprint of the manifest and no
\* other; the entry is the version of the first line of that fingerprint
\* that bears "commit" (no later line overwrites it), and when no line of
\* the fingerprint bears it, the version of the last line (a later line
\* overwrites an earlier one)
FingerprintDedup ==
    pc = "loaded" =>
        /\ DOMAIN soljsonVersions = {Fingerprint(BuildLines[i]) : i \in DOMAIN BuildLines}
        /\ \A f \in DOMAIN soljsonVersions :
               LET commits == {i \in LinesOf(f) : BearsCommit(BuildLines[i])}
                   first == CHOOSE i \in commits : \A j \in commits : i <= j
                   last == CHOOSE i \in LinesOf(f) : \A j \in LinesOf(f) : j <= i
               IN soljsonVersions[f] =
                      IF commits # {} THEN Version(BuildLines[first])
                      ELSE Version(BuildLines[last])

\* a line without "commit", then a line with it, then another line without:
\* the entry is the second line's version
FingerprintDedupWitness ==
    /\ pc = "loaded"
    /\ text = joinLines(<<lineNightly, lineCommit, lineNightlyLater>>)
    /\ soljsonVersions[<<"a", "b", "c", "1", "2", "3">>] = Version(lineCommit)
    /\ Version(lineCommit) = <<"1", "+", "c", "o", "m", "m", "i", "t", ".",
                               "a", "b", "c", "1", "2", "3", "4", "5">>

(***************************************************************************)
(* C15.                                                                    *)
(***************************************************************************)
\* the text of the fourth <pre> of source A's document up to its first tag
BeforeTag(html) ==
    LET tags == {i \in DOMAIN html : html[i] = "<"}
    IN IF tags = {} THEN html
       ELSE SubSeq(html, 1, (CHOOSE i \in tags : \A j \in tags : i <= j) - 1)

\* C15: the constructor field of an assembled record is the hex of source
\* A's document when the document has one; else the override table's entry
\* for the (lowercased) address when the table has one; else it is empty
ConstructorFallback ==
    contract # noContract =>
        /\ contract.info.address = address
        /\ address = toLowerCase(address)
        /\ contract.info.constructor =
               IF fa.etherscan.cargsHTML # <<>>
               THEN BeforeTag(fa.etherscan.cargsHTML)
               ELSE IF address \in DOMAIN etherscanConstructorArguments
               THEN etherscanConstructorArguments[address]
               ELSE <<>>

\* the document has no hex and the table has the address, which the page
\* gave in mixed case or not; earlier in the run a record of another
\* address was saved
ConstructorFallbackWitness ==
    /\ status = "running"
    /\ pc = "save"
    /\ fa.etherscan.cargsHTML = <<>>
    /\ address \in DOMAIN etherscanConstructorArguments
    /\ contract.info.constructor = <<"b", "b", "0", "2">>
    /\ At("save") # {}

(***************************************************************************)
(* C16.                                                                    *)
(***************************************************************************)
CallsUnder(k) == {c \in DOMAIN calls : calls[c].id = k}

\* a listing page has been requested and has not arrived
PageRequested == cur.call > 0 /\ cur.i = 0

\* C16: source A's and source B's requests for an address are issued only
\* after the store answered that the address is not there (every request
\* is accounted for by a page or by such an ingestion), the ledger is asked
\* and save is called only after those requests; after the answer "exists"
\* nothing is done for the address: without update mode fetchAddress
\* returns at once and the run goes on with the next address
DedupFirst ==
    /\ Cardinality(CallsUnder("blockchair")) = Cardinality(At("fetch"))
    /\ Cardinality(CallsUnder("etherscan")) =
           Cardinality(At("fetch")) + Cardinality(At("page"))
               + (IF PageRequested THEN 1 ELSE 0)
    /\ \A j \in At("fetch") :
           /\ j >= 2
           /\ trace[j - 1].op = "exists" /\ trace[j - 1].val = FALSE
           /\ trace[j - 1].address = trace[j].address
    /\ \A j \in At("save") :
           j >= 2 /\ trace[j - 1].op = "fetch" /\ trace[j - 1].address = trace[j].address
    /\ (fa.b # "none" \/ fa.a # "none" \/ LedgerAnswered \/ contract # noContract)
           => /\ LastAt("fetch") > LastAt("exists")
              /\ trace[LastAt("fetch")].address = address
    /\ \A i \in At("exists") :
           (trace[i].val = TRUE /\ ~args.update)
               => /\ i < Len(trace)
                  /\ trace[i + 1].op = "end" /\ trace[i + 1].address = trace[i].address
                  /\ status # "exit0"
                  /\ (i + 1 = Len(trace) /\ LastAt("page") > 0
                          /\ cur.i <= Len(cur.addresses))
                         => /\ status = "running"
                            /\ pc = "exists"
                            /\ address = cur.addresses[cur.i]

\* the first address of a page was reported as existing and the second one
\* is being ingested; the page's request is the only one under source A's
\* key since the page was asked for
DedupFirstWitness ==
    /\ ~args.update
    /\ status = "running"
    /\ pc = "fetching"
    /\ cur.i = 2
    /\ LastAt("page") > 0
    /\ Len(trace) = LastAt("page") + 4
    /\ trace[LastAt("page") + 1].op = "exists"
    /\ trace[LastAt("page") + 1].val = TRUE
    /\ trace[LastAt("page") + 2].op = "end"
    /\ trace[LastAt("page") + 3].val = FALSE
    /\ trace[LastAt("page") + 4].op = "fetch"

(***************************************************************************)
(* C17.                                                                    *)
(***************************************************************************)
\* save has been called for `address`: the record is assembled in the step
\* that calls save, and is kept until fetchAddress returns
SaveCalled == contract # noContract

\* the html of the fourth <pre> begins with an even number of characters
\* 0-9 a-f, at least two, and a tag follows them
EvenHexThenTag(html) ==
    /\ BeforeTag(html) # <<>>
    /\ BeforeTag(html) # html
    /\ Len(BeforeTag(html)) % 2 = 0
    /\ \A i \in DOMAIN BeforeTag(html) :
           BeforeTag(html)[i] \in {"0", "1", "2", "3", "4", "5", "6", "7", "8", "9",
                                   "a", "b", "c", "d", "e", "f"}

\* C17: save has been called for an address only if source B answered with
\* one row, the ledger's address is the address, the hex of source A's
\* document, when the document has one, is even-length hex, and the
\* record's compiler is the index's entry for the compiler's fingerprint,
\* or, only when the index has none, the entry for the fingerprint's alias;
\* an answer of source B with no row or with two rows has ended the run
ValidatedSave ==
    /\ SaveCalled =>
           LET mark == compilerMark(fa.etherscan.compiler)
           IN /\ fa.blockchair.rows = 1
              /\ fa.txInfo.address = address
              /\ fa.etherscan.cargsHTML # <<>> => EvenHexThenTag(fa.etherscan.cargsHTML)
              /\ contract.info.compiler # <<>>
              /\ contract.info.compiler =
                     IF mark \in DOMAIN soljsonVersions
                     THEN soljsonVersions[mark]
                     ELSE soljsonVersions[compilersMap[mark]]
    /\ fa.blockchair.rows \notin {-1, 1} =>
           /\ status = "exit1"
           /\ ~SaveCalled
           /\ trace[Len(trace)].op = "error"
    /\ \A i \in At("save") : i >= 2 /\ trace[i - 1].op = "fetch"

\* save is called for a record whose compiler resolved through the alias
\* table and whose document carried hex, after a save in the same run
ValidatedSaveWitness ==
    /\ SaveCalled
    /\ status = "running"
    /\ pc = "save"
    /\ compilerMark(fa.etherscan.compiler) \notin DOMAIN soljsonVersions
    /\ fa.etherscan.cargsHTML # <<>>
    /\ At("save") # {}

(***************************************************************************)
(* C18.                                                                    *)
(***************************************************************************)
\* the requests to source A the run is waiting for or has last made: the
\* page's and the current address's document
SourceACalls == {c \in {cur.call, fa.callA} : c > 0}

\* C18: the page's request and the document's request are calls under the
\* key 'etherscan' and source B's request is a call under 'blockchair'; at
\* most one request to source A is sleeping or in flight; a request to
\* source A starts at least MinInterval after the request to source A
\* before it, of either kind, completed; source B's call never waits for a
\* call to source A: it is not queued behind one and its sleep is due
\* MinInterval after source B's own last answer at the latest
SharedSourceAKey ==
    /\ \A c \in SourceACalls : calls[c].id = "etherscan"
    /\ fa.callB > 0 => calls[fa.callB].id = "blockchair"
    /\ Cardinality({c \in SourceACalls : calls[c].st \in {"queued", "sleep", "req"}}) <= 1
    /\ \A c \in SourceACalls :
           /\ calls[c].st # "queued"
           /\ calls[c].st = "req" => now - lastDone["etherscan"] >= MinInterval
    /\ fa.callB > 0 =>
           /\ calls[fa.callB].st # "queued"
           /\ calls[fa.callB].st = "sleep"
                  => calls[fa.callB].wake <= Max(now, lastDone["blockchair"] + MinInterval)

\* the document's request starts MinInterval after the page arrived, when
\* source B's request, issued together with it, has been answered already
SharedSourceAKeyWitness ==
    /\ status = "running"
    /\ pc = "fetching"
    /\ cur.call > 0
    /\ calls[fa.callA].st = "req"
    /\ now - lastDone["etherscan"] = MinInterval
    /\ calls[fa.callB].st = "ok"
    /\ lastDone["blockchair"] < now

(***************************************************************************)
(* C19.                                                                    *)
(***************************************************************************)
\* the position of the page event the event at position i belongs to
PageOf(i) ==
    LET before == {j \in At("page") : j < i}
    IN IF before = {} THEN 0 ELSE CHOOSE j \in before : \A k \in before : k <= j

\* the addresses whose ingestion returned between positions p and i
ReturnedBetween(p, i) ==
    [k \in DOMAIN Pick(trace, {j \in At("end") : p < j /\ j < i}) |->
        Pick(trace, {j \in At("end") : p < j /\ j < i})[k].address]

\* C19: the footer of a page is looked for when the ingestion of every
\* address of the page has returned; a page without the footer ends the run
\* with an error whatever was asked for (--page, a literal range, latest);
\* what was saved stays saved
FooterAfterIngestion ==
    /\ \A i \in At("footer") :
           /\ PageOf(i) > 0
           /\ trace[PageOf(i)].val.page = trace[i].val.page
           /\ ReturnedBetween(PageOf(i), i) = trace[PageOf(i)].val.addresses
           /\ trace[i].val.match = <<>>
                  => /\ Len(trace) = i + 1
                     /\ trace[i + 1].op = "error"
                     /\ status = "exit1"
    /\ \A i \in At("page") :
           (\E j \in At("error") : PageOf(j) = i /\ trace[j - 1].op # "footer")
               => \A k \in At("footer") : k < i
    /\ \A i \in At("save") : trace[i].address \in store

\* a literal range: the second page has no footer, the run has failed after
\* it saved an address of that page
FooterAfterIngestionWitness ==
    /\ status = "exit1"
    /\ args.pages = <<1, 2>>
    /\ page = 2
    /\ Len(trace) >= 2
    /\ trace[Len(trace) - 1].op = "footer"
    /\ trace[Len(trace) - 1].val.match = <<>>
    /\ \E i \in At("save") : i > LastAt("page") /\ trace[i].val = TRUE

(***************************************************************************)
(* C20.                                                                    *)
(***************************************************************************)
\* the throttled request of call c settles in this step
Settles(c) ==
    /\ calls[c].id # NoKey
    /\ calls[c].st = "req"
    /\ calls'[c].st \in {"ok", "fail"}

\* C20: while no call of a key has succeeded the key's `last` is 0 and a
\* call of the key that sleeps is due at once; a request is in flight only
\* MinInterval or more after the key's `last`; and when a request settles,
\* `last` becomes the time of the step if it succeeded and stays what it
\* was if it failed, the slot is released either way, and the call queued
\* first, if any, starts its sleep, due MinInterval after `last`
LastOnSuccessOnly ==
    /\ [](\A k \in Keys :
              /\ (\A c \in CallsUnder(k) : calls[c].st # "ok")
                     => /\ map[k].last = 0
                        /\ \A c \in CallsUnder(k) :
                               calls[c].st = "sleep" => calls[c].wake <= now
              /\ \A c \in CallsUnder(k) :
                     calls[c].st = "req" => now - map[k].last >= MinInterval)
    /\ [][\A c \in DOMAIN calls :
              Settles(c) =>
                  LET k == calls[c].id
                  IN /\ map'[k].last = IF calls'[c].st = "ok" THEN now ELSE map[k].last
                     /\ {d \in DOMAIN calls' : /\ calls'[d].id = k
                                               /\ calls'[d].st \in {"sleep", "req"}}
                            = IF map[k].queue = <<>> THEN {} ELSE {Head(map[k].queue)}
                     /\ map[k].queue # <<>>
                            => /\ calls'[Head(map[k].queue)].st = "sleep"
                               /\ calls'[Head(map[k].queue)].wake =
                                      Max(now, map'[k].last + MinInterval)]_vars

\* after a success and then a failure under a key, the third call's request
\* is in flight less than MinInterval after the failed call settled
LastOnSuccessOnlyWitness ==
    \E c1, c2, c3 \in CallsUnder("etherscan") :
        /\ c1 < c2 /\ c2 < c3
        /\ calls[c1].st = "ok"
        /\ calls[c2].st = "fail"
        /\ calls[c3].st = "req"
        /\ map["etherscan"].last < lastDone["etherscan"]
        /\ now - lastDone["etherscan"] < MinInterval
        /\ now - map["etherscan"].last >= MinInterval

====
